---- MODULE Spec2Model ----
(***************************************************************************)
(* pika_pool.QueuedPool: a bounded FIFO of idle Fairies (_queue), a        *)
(* budget of Fairies that may still be created (_avail, under _avail_lock),*)
(* recycle / stale eviction on acquire, and the Connection handle whose    *)
(* release, close and __exit__ give a Fairy back or destroy it.            *)
(*                                                                         *)
(* Threads call acquire, Connection.release, Connection.close and          *)
(* Connection.__exit__ concurrently.  One action is one atomic step of the *)
(* code: a queue operation (queue.Queue is thread safe), a section under   *)
(* _avail_lock, one call into a collaborator (the create callable,         *)
(* channel.close, cxn.close), or one read of time.time().                  *)
(***************************************************************************)
EXTENDS Integers, Sequences, FiniteSets

\* ---------------------------------------------------------------- bounds
MaxPoolSize == 1        \* max_size is drawn from 0..MaxPoolSize
MaxPoolOverflow == 1    \* max_overflow is drawn from 0..MaxPoolOverflow
MaxFairies == 3         \* Fairies the create callable hands out in one run
MaxTime == 2            \* time.time() runs over 0..MaxTime
MaxSurplus == 1         \* release and close get into QueuedPool.close while the pool accounts for fewer than
                        \* max_size + max_overflow + MaxSurplus Fairies

Threads == {"t1", "t2"}
FairyIds == 1..MaxFairies

\* Python's None, for a Connection's fairy and a thread's local fairy, and
\* for the timeout argument of acquire
None == 0
NoTimeout == -1
NotFresh == 0 - 1

\* what a call into a collaborator can do: return, raise one of
\* Connection.connectivity_errors, or raise anything else
CallOutcomes == {"ok", "invalidated", "other"}
\* how a `with pool.acquire() as cxn:` block can end
ExitKinds == {"normal", "invalidated", "other"}

VARIABLES
    max_size, max_overflow, timeout, recycle, stale,   \* QueuedPool.__init__ arguments
    avail,       \* QueuedPool._avail
    queue,       \* QueuedPool._queue, head first
    fairy,       \* Fairy objects: cxn, channel, created_at, released_at
    held,        \* Connection.fairy of the Connections no thread is inside
    spent,       \* some Connection has fairy = None (was released or closed)
    now,         \* time.time()
    pc,          \* per thread: the statement it is about to execute
    op,          \* per thread: the call it is in: acquire, release, close
    tf,          \* per thread: the local `fairy` (in Connection.release and
                 \* close: self.fairy)
    tto,         \* per thread: the local `timeout` of acquire
    texc,        \* per thread: how the with-block ended, "call" for a direct call
    hist,        \* per thread: history of the call it is in
    fresh        \* calls of acquire so far, while no release or close has
                 \* been called; NotFresh after that

vars == <<max_size, max_overflow, timeout, recycle, stale, avail, queue, fairy,
          held, spent, now, pc, op, tf, tto, texc, hist, fresh>>

config == <<max_size, max_overflow, timeout, recycle, stale>>

\* ------------------------------------------------------------- helpers
\* `doomed` remembers that the pool's close has been called on the Fairy
NoFairy == [cxn |-> "none", channel |-> FALSE, created_at |-> 0, released_at |-> 0,
            doomed |-> FALSE]
\* a Fairy after cxn.close(): nothing reads its timestamps any more, and the
\* model drops them
Closed == [cxn |-> "closed", channel |-> FALSE, created_at |-> 0, released_at |-> 0,
           doomed |-> TRUE]
\* a Fairy nothing refers to any more, its connection never closed
Leaked == [cxn |-> "open", channel |-> FALSE, created_at |-> 0, released_at |-> 0,
           doomed |-> TRUE]

Made(f) == fairy[f].cxn # "none"
NumFairies == Cardinality({f \in FairyIds : Made(f)})
NewFairyId == NumFairies + 1

\* max_size + max_overflow, the initial _avail
Limit == max_size + max_overflow

IsExpiredWrongField(f) ==
    IF recycle = 0 THEN FALSE
    ELSE (now - fairy[f].released_at) > recycle

\* QueuedPool.is_expired
is_expired(f) ==
    IF recycle = 0 THEN FALSE
    ELSE (now - fairy[f].created_at) > recycle

IsStaleWrongField(f) ==
    IF stale = 0 THEN FALSE
    ELSE (now - fairy[f].created_at) > stale

\* QueuedPool.is_stale
is_stale(f) ==
    IF stale = 0 THEN FALSE
    ELSE (now - fairy[f].released_at) > stale

\* queue.Queue.full(): maxsize <= 0 means the queue is unbounded
QueueFull == max_size > 0 /\ Len(queue) >= max_size

\* `timeout or self.timeout`
TimeoutOr(t) == IF t = NoTimeout \/ t = 0 THEN timeout ELSE t

\* Connection.is_connection_invalidated, on how the with-block ended
is_connection_invalidated(e) == e = "invalidated"

\* every Fairy some Connection refers to
InHandleOp(t) == op[t] \in {"release", "close"}
Held == (held \cup {tf[t] : t \in {u \in Threads : InHandleOp(u)}}) \ {None}

\* ------------------------------------------------------------- history
\* what the properties need to know about the call a thread is in
NoHist == [head0 |-> None,      \* the Fairy the first _queue.get(False) took
           made |-> FALSE,      \* the create callable was called
           fed |-> FALSE,       \* the blocking _queue.get returned a Fairy
           expired |-> {},      \* the Fairies closed as expired,
           born |-> 0,          \* and the latest created_at among them
           staled |-> {},       \* the Fairies closed as stale
           mine |-> None,       \* the Fairy of the Connection __exit__ is in
           taken |-> {},        \* the Fairies the call took off the idle queue
           davail |-> 0,        \* what the call has added to _avail, in all
           alone |-> FALSE]     \* at the call max_size + max_overflow Fairies
                                \* were held by Connections, and no release
                                \* or close has run since

Idle(t) == pc[t] = "idle"
Acquiring(t) == op[t] = "acquire"
Raised == {"raise_Timeout", "raise_create", "raise_close", "raise_attr", "reraise"}

\* ---------------------------------------------------------------- Init
\* QueuedPool.__init__: an empty queue, the whole budget, no Fairy yet
Fresh ==
    /\ max_size \in 0..MaxPoolSize
    /\ max_overflow \in 0..MaxPoolOverflow
    /\ timeout = 1
    /\ avail = max_size + max_overflow
    /\ queue = <<>>
    /\ fairy = [f \in FairyIds |-> NoFairy]
    /\ held = {}
    /\ spent = FALSE
    /\ now = 0
    /\ pc = [t \in Threads |-> "idle"]
    /\ op = [t \in Threads |-> "none"]
    /\ tf = [t \in Threads |-> None]
    /\ tto = [t \in Threads |-> NoTimeout]
    /\ texc = [t \in Threads |-> "call"]
    /\ hist = [t \in Threads |-> NoHist]
    /\ fresh = 0

\* a pool with recycle and stale set or not
Init ==
    /\ Fresh
    /\ recycle \in {0, 1}
    /\ stale \in {0, 1}

\* a pool without recycle and stale
InitPlain ==
    /\ Fresh
    /\ recycle = 0
    /\ stale = 0

\* a thread's locals when it is in no call
Clear(t) ==
    /\ pc' = [pc EXCEPT ![t] = "idle"]
    /\ op' = [op EXCEPT ![t] = "none"]
    /\ tf' = [tf EXCEPT ![t] = None]
    /\ tto' = [tto EXCEPT ![t] = NoTimeout]
    /\ texc' = [texc EXCEPT ![t] = "call"]
    /\ hist' = [hist EXCEPT ![t] = NoHist]

Max(a, b) == IF a >= b THEN a ELSE b
Saturate(n, cap) == IF n < cap THEN n + 1 ELSE cap

\* ------------------------------------------------------------- acquire
\* the timeout arguments callers pass: none, 0, and a value other than
\* the pool's default
TimeoutArgs == {NoTimeout, 0, 2}

GetTakesLast(t, first) ==
    IF queue # <<>>
    THEN /\ tf' = [tf EXCEPT ![t] = queue[Len(queue)]]
         /\ queue' = SubSeq(queue, 1, Len(queue) - 1)
         /\ pc' = [pc EXCEPT ![t] = "chk_expired"]
         /\ hist' = [hist EXCEPT ![t] =
                       IF first
                       THEN [NoHist EXCEPT !.head0 = Head(queue),
                                           !.taken = {Head(queue)}]
                       ELSE [@ EXCEPT !.taken = @ \cup {Head(queue)}]]
    ELSE /\ pc' = [pc EXCEPT ![t] = "create1"]
         /\ tf' = [tf EXCEPT ![t] = None]
         /\ queue' = queue
         /\ hist' = [hist EXCEPT ![t] =
                       IF first
                       THEN [NoHist EXCEPT !.alone = /\ Cardinality(Held) = Limit
                                                     /\ \A u \in Threads : ~InHandleOp(u)]
                       ELSE @]

GetLeavesHead(t, first) ==
    IF queue # <<>>
    THEN /\ tf' = [tf EXCEPT ![t] = Head(queue)]
         /\ queue' = queue
         /\ pc' = [pc EXCEPT ![t] = "chk_expired"]
         /\ hist' = [hist EXCEPT ![t] =
                       IF first
                       THEN [NoHist EXCEPT !.head0 = Head(queue),
                                           !.taken = {Head(queue)}]
                       ELSE [@ EXCEPT !.taken = @ \cup {Head(queue)}]]
    ELSE /\ pc' = [pc EXCEPT ![t] = "create1"]
         /\ tf' = [tf EXCEPT ![t] = None]
         /\ queue' = queue
         /\ hist' = [hist EXCEPT ![t] =
                       IF first
                       THEN [NoHist EXCEPT !.alone = /\ Cardinality(Held) = Limit
                                                     /\ \A u \in Threads : ~InHandleOp(u)]
                       ELSE @]

\* fairy = self._queue.get(False); except queue.Empty: go on to _create.
\* `first` tells the call from a retry
QueueGetNoWait(t, first) ==
    IF queue # <<>>
    THEN /\ tf' = [tf EXCEPT ![t] = Head(queue)]
         /\ queue' = Tail(queue)
         /\ pc' = [pc EXCEPT ![t] = "chk_expired"]
         /\ hist' = [hist EXCEPT ![t] =
                       IF first
                       THEN [NoHist EXCEPT !.head0 = Head(queue),
                                           !.taken = {Head(queue)}]
                       ELSE [@ EXCEPT !.taken = @ \cup {Head(queue)}]]
    ELSE /\ pc' = [pc EXCEPT ![t] = "create1"]
         /\ tf' = [tf EXCEPT ![t] = None]
         /\ queue' = queue
         /\ hist' = [hist EXCEPT ![t] =
                       IF first
                       THEN [NoHist EXCEPT !.alone = /\ Cardinality(Held) = Limit
                                                     /\ \A u \in Threads : ~InHandleOp(u)]
                       ELSE @]

\* QueuedPool.acquire(timeout) is called and runs its first statement
Acquire(t, to) ==
    /\ Idle(t)
    /\ op' = [op EXCEPT ![t] = "acquire"]
    /\ tto' = [tto EXCEPT ![t] = to]
    /\ fresh' = IF fresh = NotFresh THEN NotFresh ELSE Saturate(fresh, Limit + 2)
    /\ QueueGetNoWait(t, TRUE)
    /\ UNCHANGED <<config, avail, fairy, held, spent, now, texc>>

\* return self.acquire(timeout=timeout): the first statement again
Retry(t) ==
    /\ pc[t] = "get"
    /\ QueueGetNoWait(t, FALSE)
    /\ UNCHANGED <<config, avail, fairy, held, spent, now, op, tto, texc, fresh>>

BudgetGoneEarly == avail <= 1
BudgetGoneLate == avail < 0

\* _create: `if self._avail <= 0: raise Overflow()`
BudgetGone == avail <= 0

\* QueuedPool._create under _avail_lock, the first attempt: Overflow sends
\* acquire to `timeout = timeout or self.timeout` and the blocking get
CreateFirst(t) ==
    /\ pc[t] = "create1"
    /\ IF BudgetGone
       THEN /\ tto' = [tto EXCEPT ![t] = TimeoutOr(tto[t])]
            /\ pc' = [pc EXCEPT ![t] = "wait"]
            /\ UNCHANGED <<avail, hist>>
       ELSE /\ avail' = avail - 1
            /\ hist' = [hist EXCEPT ![t].davail = @ - 1]
            /\ pc' = [pc EXCEPT ![t] = "factory"]
            /\ tto' = tto
    /\ UNCHANGED <<config, queue, fairy, held, spent, now, op, tf, texc, fresh>>

\* super()._create(): self.Fairy(self.create()); the create callable
\* returns a connection or raises
Factory(t) ==
    /\ pc[t] = "factory"
    /\ \/ /\ NumFairies < MaxFairies
          /\ fairy' = [fairy EXCEPT ![NewFairyId] =
                         [cxn |-> "open", channel |-> FALSE,
                          created_at |-> now, released_at |-> now,
                          doomed |-> FALSE]]
          /\ tf' = [tf EXCEPT ![t] = NewFairyId]
          /\ pc' = [pc EXCEPT ![t] = "chk_expired"]
       \/ /\ pc' = [pc EXCEPT ![t] = "undo"]
          /\ UNCHANGED <<fairy, tf>>
    /\ hist' = [hist EXCEPT ![t].made = TRUE]
    /\ UNCHANGED <<config, avail, queue, held, spent, now, op, tto, texc, fresh>>

UndoKeepsUnit(t) ==
    /\ pc[t] = "undo"
    /\ pc' = [pc EXCEPT ![t] = "raise_create"]
    /\ UNCHANGED <<config, avail, queue, fairy, held, spent, now, op, tf, tto, texc, hist, fresh>>

\* the except: branch of _create: give the unit back, re-raise
CreateUndo(t) ==
    /\ pc[t] = "undo"
    /\ avail' = avail + 1
    /\ hist' = [hist EXCEPT ![t].davail = @ + 1]
    /\ pc' = [pc EXCEPT ![t] = "raise_create"]
    /\ UNCHANGED <<config, queue, fairy, held, spent, now, op, tf, tto, texc, fresh>>

\* fairy = self._queue.get(timeout=timeout): takes the head as soon as
\* there is one
WaitGet(t) ==
    /\ pc[t] = "wait"
    /\ queue # <<>>
    /\ tf' = [tf EXCEPT ![t] = Head(queue)]
    /\ queue' = Tail(queue)
    /\ pc' = [pc EXCEPT ![t] = "chk_expired"]
    /\ hist' = [hist EXCEPT ![t].fed = TRUE, ![t].taken = @ \cup {Head(queue)}]
    /\ UNCHANGED <<config, avail, fairy, held, spent, now, op, tto, texc, fresh>>

\* the blocking get raises queue.Empty: the wait bound has elapsed and the
\* queue is (still) empty
WaitTimeout(t) ==
    /\ pc[t] = "wait"
    /\ queue = <<>>
    /\ pc' = [pc EXCEPT ![t] = "create2"]
    /\ UNCHANGED <<config, avail, queue, fairy, held, spent, now, op, tf, tto, texc, hist, fresh>>

\* the unit the call takes from _avail
Reserve(t) ==
    /\ avail' = avail - 1
    /\ hist' = [hist EXCEPT ![t].davail = @ - 1]

SecondCreateKeepsUnit(t) ==
    /\ pc[t] = "create2"
    /\ IF BudgetGone
       THEN /\ pc' = [pc EXCEPT ![t] = "raise_Timeout"]
            /\ Reserve(t)
       ELSE /\ Reserve(t)
            /\ pc' = [pc EXCEPT ![t] = "factory"]
    /\ UNCHANGED <<config, queue, fairy, held, spent, now, op, tf, tto, texc, fresh>>

\* QueuedPool._create under _avail_lock, after the wait: Overflow is
\* turned into Timeout
CreateSecond(t) ==
    /\ pc[t] = "create2"
    /\ IF BudgetGone
       THEN /\ pc' = [pc EXCEPT ![t] = "raise_Timeout"]
            /\ UNCHANGED <<avail, hist>>
       ELSE /\ Reserve(t)
            /\ pc' = [pc EXCEPT ![t] = "factory"]
    /\ UNCHANGED <<config, queue, fairy, held, spent, now, op, tf, tto, texc, fresh>>

\* if self.is_expired(fairy): self.close(fairy); return self.acquire(...)
CheckExpired(t) ==
    /\ pc[t] = "chk_expired"
    /\ IF is_expired(tf[t])
       THEN /\ pc' = [pc EXCEPT ![t] = "close_inc"]
            /\ hist' = [hist EXCEPT ![t].expired = @ \cup {tf[t]},
                                     ![t].born = Max(@, fairy[tf[t]].created_at)]
       ELSE /\ pc' = [pc EXCEPT ![t] = "chk_stale"]
            /\ hist' = hist
    /\ UNCHANGED <<config, avail, queue, fairy, held, spent, now, op, tf, tto, texc, fresh>>

\* if self.is_stale(fairy): self.close(fairy); return self.acquire(...)
\* otherwise acquire is at `return self.Connection(self, fairy)`
CheckStale(t) ==
    /\ pc[t] = "chk_stale"
    /\ IF is_stale(tf[t])
       THEN /\ pc' = [pc EXCEPT ![t] = "close_inc"]
            /\ hist' = [hist EXCEPT ![t].staled = @ \cup {tf[t]}]
       ELSE /\ pc' = [pc EXCEPT ![t] = "ret"]
            /\ hist' = hist
    /\ UNCHANGED <<config, avail, queue, fairy, held, spent, now, op, tf, tto, texc, fresh>>

\* return self.Connection(self, fairy): the caller has a Connection
Return(t) ==
    /\ pc[t] = "ret"
    /\ held' = held \cup {tf[t]}
    /\ Clear(t)
    /\ UNCHANGED <<config, avail, queue, fairy, spent, now, fresh>>

\* --------------------------------------------- QueuedPool.close(fairy)
\* the Fairies the pool accounts for: the budget left, the idle ones, the
\* ones Connections hold and the ones acquires in progress have in hand
InHand == {t \in Threads : /\ Acquiring(t)
                           /\ pc[t] \in {"factory", "undo", "chk_expired",
                                         "chk_stale", "ret", "close_inc"}}
Accounted == avail + Len(queue) + Cardinality(Held) + Cardinality(InHand)
\* Connection.release and close go into QueuedPool.close while this holds
MayClose == Accounted < Limit + MaxSurplus

\* with self._avail_lock: self._avail += 1
CloseInc(t) ==
    /\ pc[t] = "close_inc"
    /\ Acquiring(t) \/ MayClose
    /\ avail' = avail + 1
    /\ hist' = [hist EXCEPT ![t].davail = @ + 1]
    /\ fairy' = IF tf[t] = None THEN fairy ELSE [fairy EXCEPT ![tf[t]].doomed = TRUE]
    /\ pc' = [pc EXCEPT ![t] = "close_chan"]
    /\ UNCHANGED <<config, queue, held, spent, now, op, tf, tto, texc, fresh>>

\* Pool.close -> Fairy.close, first half: fairy.close() on None raises
\* AttributeError; if self.channel: self.channel.close(), and an error
\* outside connectivity_errors leaves Fairy.close here; self.channel = None
CloseChannel(t) ==
    /\ pc[t] = "close_chan"
    /\ \/ /\ tf[t] = None
          /\ pc' = [pc EXCEPT ![t] = "raise_attr"]
          /\ fairy' = fairy
       \/ /\ tf[t] # None
          /\ ~fairy[tf[t]].channel
          /\ pc' = [pc EXCEPT ![t] = "close_cxn"]
          /\ fairy' = fairy
       \/ /\ tf[t] # None
          /\ fairy[tf[t]].channel
          /\ \E o \in CallOutcomes :
               IF o = "other"
               THEN /\ pc' = [pc EXCEPT ![t] = "raise_close"]
                    /\ fairy' = fairy
               ELSE /\ fairy' = [fairy EXCEPT ![tf[t]].channel = FALSE]
                    /\ pc' = [pc EXCEPT ![t] = "close_cxn"]
    /\ UNCHANGED <<config, avail, queue, held, spent, now, op, tf, tto, texc, hist, fresh>>

\* Fairy.close, second half: self.cxn.close(); after it acquire retries
\* (return self.acquire(timeout=timeout)) and Connection.release / close
\* go on to self.fairy = None
CloseCxn(t) ==
    /\ pc[t] = "close_cxn"
    /\ \E o \in CallOutcomes :
         IF o = "other"
         THEN /\ pc' = [pc EXCEPT ![t] = "raise_close"]
              /\ UNCHANGED <<fairy, tf>>
         ELSE /\ fairy' = [fairy EXCEPT ![tf[t]] = Closed]
              /\ IF Acquiring(t)
                 THEN /\ pc' = [pc EXCEPT ![t] = "get"]
                      /\ tf' = [tf EXCEPT ![t] = None]
                 ELSE /\ pc' = [pc EXCEPT ![t] = "clear"]
                      /\ tf' = tf
    /\ UNCHANGED <<config, avail, queue, held, spent, now, op, tto, texc, hist, fresh>>

\* ------------------------------------------------------- Connection
\* the Connections a thread can call release / close / __exit__ on: one
\* that holds Fairy f and no other thread is inside (sharing a Connection
\* between threads is outside the pool's contract), or, with f = None, one
\* already released or closed
Callable(t, f) ==
    /\ Idle(t)
    /\ \/ f \in held
       \/ f = None /\ spent

\* a thread enters a Connection's release or close
Enter(t, o, f, e) ==
    /\ op' = [op EXCEPT ![t] = o]
    /\ tf' = [tf EXCEPT ![t] = f]
    /\ texc' = [texc EXCEPT ![t] = e]
    /\ held' = held \ {f}
    /\ fresh' = NotFresh
    /\ hist' = [u \in Threads |->
                  IF u = t
                  THEN [NoHist EXCEPT !.mine = IF e = "call" THEN None ELSE f]
                  ELSE [hist[u] EXCEPT !.alone = FALSE]]

\* QueuedPool.release, first statement: fairy.released_at = time.time(),
\* which on None raises AttributeError
ReleaseStamp(t, f) ==
    IF f = None
    THEN /\ pc' = [pc EXCEPT ![t] = "raise_attr"]
         /\ fairy' = fairy
    ELSE /\ fairy' = [fairy EXCEPT ![f].released_at = now]
         /\ pc' = [pc EXCEPT ![t] = "rel_put"]

\* Connection.release: self.pool.release(self.fairy)
HandleRelease(t, f) ==
    /\ Callable(t, f)
    /\ Enter(t, "release", f, "call")
    /\ ReleaseStamp(t, f)
    /\ UNCHANGED <<config, avail, queue, spent, now, tto>>

\* Connection.close: self.pool.close(self.fairy)
HandleClose(t, f) ==
    /\ Callable(t, f)
    /\ Enter(t, "close", f, "call")
    /\ pc' = [pc EXCEPT ![t] = "close_inc"]
    /\ UNCHANGED <<config, avail, queue, fairy, spent, now, tto>>

ExitAlwaysReleases(e) == TRUE

\* Connection.__exit__: `if type is None or not
\* self.is_connection_invalidated(value): self.release()`
ExitReleases(e) == e = "normal" \/ ~is_connection_invalidated(e)

\* Connection.__exit__(type, value, traceback)
HandleExit(t, f, e) ==
    /\ Callable(t, f)
    /\ IF ExitReleases(e)
       THEN /\ Enter(t, "release", f, e)
            /\ ReleaseStamp(t, f)
       ELSE /\ Enter(t, "close", f, e)
            /\ pc' = [pc EXCEPT ![t] = "close_inc"]
            /\ fairy' = fairy
    /\ UNCHANGED <<config, avail, queue, spent, now, tto>>

\* self._queue.put_nowait(fairy); except queue.Full: self.close(fairy)
QueuePutNoWait(t) ==
    IF QueueFull
    THEN /\ pc' = [pc EXCEPT ![t] = "close_inc"]
         /\ queue' = queue
    ELSE /\ queue' = Append(queue, tf[t])
         /\ pc' = [pc EXCEPT ![t] = "clear"]

\* QueuedPool.release, second statement
ReleasePut(t) ==
    /\ pc[t] = "rel_put"
    /\ QueuePutNoWait(t)
    /\ UNCHANGED <<config, avail, fairy, held, spent, now, op, tf, tto, texc, hist, fresh>>

\* self.fairy = None, the last statement of Connection.release / close;
\* __exit__ returns None, so the with statement re-raises the block's error
ClearFairy(t) ==
    /\ pc[t] = "clear"
    /\ spent' = TRUE
    /\ IF texc[t] \in {"call", "normal"}
       THEN Clear(t)
       ELSE /\ pc' = [pc EXCEPT ![t] = "reraise"]
            /\ tf' = [tf EXCEPT ![t] = None]
            /\ UNCHANGED <<op, tto, texc, hist>>
    /\ UNCHANGED <<config, avail, queue, fairy, held, now, fresh>>

\* an exception leaves the call; a Connection whose release or close raised
\* still has its fairy, and the Fairy an acquire was closing is lost
Unwind(t) ==
    /\ pc[t] \in Raised
    /\ held' = IF InHandleOp(t) /\ tf[t] # None THEN held \cup {tf[t]} ELSE held
    /\ fairy' = IF Acquiring(t) /\ tf[t] # None
                THEN [fairy EXCEPT ![tf[t]] = Leaked]
                ELSE fairy
    /\ Clear(t)
    /\ UNCHANGED <<config, avail, queue, spent, now, fresh>>

\* Connection.channel: the Fairy's channel is made on first use
UseChannel(t, f) ==
    /\ Idle(t)
    /\ f \in held
    /\ ~fairy[f].channel
    /\ fairy' = [fairy EXCEPT ![f].channel = TRUE]
    /\ UNCHANGED <<config, avail, queue, held, spent, now, pc, op, tf, tto, texc, hist, fresh>>

\* time passes
Tick ==
    /\ now < MaxTime
    /\ now' = now + 1
    /\ UNCHANGED <<config, avail, queue, fairy, held, spent, pc, op, tf, tto, texc, hist, fresh>>

\* ----------------------------------------------------------------- Next
\* the calls thread t can make, acquire with a timeout argument from args
Calls(t, args) ==
    \/ \E to \in args : Acquire(t, to)
    \/ \E f \in FairyIds \cup {None} : HandleRelease(t, f)
    \/ \E f \in FairyIds \cup {None} : HandleClose(t, f)
    \/ \E f \in FairyIds \cup {None}, e \in ExitKinds : HandleExit(t, f, e)
    \/ \E f \in FairyIds : UseChannel(t, f)

\* the next statement of the call thread t is in
Statements(t) ==
    \/ CreateFirst(t)
    \/ Factory(t)
    \/ CreateUndo(t)
    \/ WaitTimeout(t)
    \/ CreateSecond(t)
    \/ CheckExpired(t)
    \/ CheckStale(t)
    \/ Return(t)
    \/ CloseInc(t)
    \/ CloseChannel(t)
    \/ CloseCxn(t)
    \/ ReleasePut(t)
    \/ ClearFairy(t)
    \/ Unwind(t)

\* a single caller: the blocking get returns a Fairy only when another
\* thread releases one
StepsAlone(t) == Statements(t) \/ Retry(t)

\* threads on a pool without recycle and stale: no Fairy is ever evicted
Steps(t) == Statements(t) \/ WaitGet(t)

\* one caller, the clock, every timeout argument
Next ==
    \/ Calls("t1", TimeoutArgs)
    \/ StepsAlone("t1")
    \/ Tick

Spec == Init /\ [][Next]_vars

\* several threads on one pool
NextThreads ==
    \E t \in Threads : Calls(t, {NoTimeout}) \/ Steps(t)

SpecThreads == InitPlain /\ [][NextThreads]_vars

\* a pool with stale set, and with recycle set or not
InitTimed ==
    /\ Fresh
    /\ recycle \in {0, 1}
    /\ stale = 1

\* several threads that acquire and release, and the clock
NextTimed ==
    \/ \E t \in Threads :
          \/ Acquire(t, NoTimeout)
          \/ \E f \in FairyIds : HandleRelease(t, f)
          \/ StepsAlone(t)
          \/ WaitGet(t)
    \/ Tick

SpecTimed == InitTimed /\ [][NextTimed]_vars

\* --------------------------------------------------------------- claims
\* the Fairies whose connection the create callable opened and cxn.close()
\* has not closed
Live == {f \in FairyIds : fairy[f].cxn = "open"}

\* C1: under any interleaving of acquire, Connection.release and
\* Connection.close by several threads, the live Fairies never number more
\* than max_size + max_overflow
C1_LiveWithinLimit == Cardinality(Live) <= Limit

\* the statements of acquire from the Overflow of the first _create on
Waiting == {"wait", "create2", "raise_Timeout"}
\* the statements of acquire at which it has a Fairy in hand
Checking == {"chk_expired", "chk_stale", "ret"}

\* a thread in the blocking get moves on only with the head of the queue,
\* or, the queue being empty, by the get timing out
WaitHandsOver(t) ==
    (pc[t] = "wait" /\ pc'[t] # "wait") =>
        IF queue # <<>>
        THEN pc'[t] = "chk_expired" /\ tf'[t] = Head(queue) /\ queue' = Tail(queue)
        ELSE pc'[t] = "create2"

C3_TimeoutWhenFull ==
    \A t \in Threads :
        hist[t].alone => (pc[t] \in {"create1"} \cup Waiting /\ tf[t] = None)

C5_ReleaseAtFullQueueDestroys ==
    [][\A t \in Threads :
          /\ (pc[t] = "rel_put" /\ pc'[t] # "rel_put" /\ Len(queue) = max_size)
                 => (queue' = queue /\ pc'[t] = "close_inc")
          /\ (pc[t] = "close_inc" /\ pc'[t] # "close_inc" /\ op[t] = "release")
                 => avail' = avail + 1]_vars

Idles == {queue[i] : i \in 1..Len(queue)}

\* C8: a with-block that ends with a connection-invalidating error has its
\* Fairy destroyed: the Fairy is never put on the idle queue, and when
\* __exit__ is left the connection is closed and the error of the block is
\* the one that propagates
C8_InvalidatedExitDestroys ==
    [][\A t \in Threads :
          (texc[t] = "invalidated" /\ hist[t].mine # None)
              => /\ hist[t].mine \notin Idles
                 /\ (pc'[t] = "idle")
                        => (pc[t] = "reraise" /\ fairy[hist[t].mine].cxn = "closed")]_vars

\* C9: Connection.__exit__ applies exactly one of release and close: close
\* when the block ended with a connection-invalidating error, release
\* otherwise; and a release that finds room on the idle queue enqueues the
\* Fairy with its connection open and leaves the budget alone
C9_ExitReleasesOrCloses ==
    [][\A t \in Threads :
          /\ (pc[t] = "idle" /\ pc'[t] # "idle" /\ texc'[t] # "call")
                 => IF texc'[t] = "invalidated"
                    THEN op'[t] = "close" /\ pc'[t] = "close_inc"
                    ELSE op'[t] = "release" /\ pc'[t] \in {"rel_put", "raise_attr"}
          /\ (pc[t] # "idle" /\ pc'[t] # "idle") => op'[t] = op[t]
          /\ (pc[t] = "rel_put" /\ pc'[t] # "rel_put" /\ ~QueueFull)
                 => /\ queue' = Append(queue, tf[t])
                    /\ fairy[tf[t]].cxn = "open"
                    /\ fairy' = fairy
                    /\ avail' = avail
                    /\ pc'[t] = "clear"]_vars

\* a with-block ended with an error that does not invalidate the connection
\* and its Fairy is back on the idle queue, open
C9_Witness ==
    \E t \in Threads :
        /\ pc[t] = "reraise"
        /\ texc[t] = "other"
        /\ op[t] = "release"
        /\ hist[t].mine \in Idles
        /\ fairy[hist[t].mine].cxn = "open"

\* C10: a release or close called on a Connection whose fairy is already
\* None changes nothing of the pool: not the budget, not the idle queue, not
\* any connection
C10_SecondCallNoOp ==
    [][\A t \in Threads :
          (InHandleOp(t) /\ tf[t] = None)
              => (avail' = avail /\ queue' = queue /\ fairy' = fairy)]_vars

Evicted(t) == hist[t].expired \cup hist[t].staled

\* C11 as stated: an acquire that fails with Timeout has changed nothing:
\* it has taken nothing off the idle queue, the budget has what it had, and
\* the call holds no Fairy
C11_TimeoutChangesNothing ==
    \A t \in Threads :
        pc[t] = "raise_Timeout"
            => (hist[t].taken = {} /\ hist[t].davail = 0 /\ tf[t] = None)

\* C11 amended: an acquire that fails with Timeout leaves nothing half
\* done: it holds no Fairy, every Fairy it took off the idle queue it
\* evicted as expired or stale, every Fairy it evicted is closed, and what
\* it added to the budget is one unit for each Fairy it took and evicted
C11_TimeoutLeavesNoPartialState ==
    \A t \in Threads :
        pc[t] = "raise_Timeout"
            => /\ tf[t] = None
               /\ hist[t].taken \subseteq Evicted(t)
               /\ \A f \in Evicted(t) : fairy[f].cxn = "closed"
               /\ hist[t].taken \cap Idles = {}
               /\ hist[t].davail = Cardinality(hist[t].taken)

\* an acquire took a Fairy off the queue, evicted it, and fails with Timeout
C11_Witness ==
    \E t \in Threads :
        /\ pc[t] = "raise_Timeout"
        /\ hist[t].taken # {}

\* C12: the available budget is never negative, whatever the interleaving
\* of creations, closes and failed creations: a unit is taken only in a step
\* that finds the budget positive, one unit at a time
C12_BudgetNeverNegative ==
    /\ [](avail >= 0)
    /\ [][avail' < avail => (avail > 0 /\ avail' = avail - 1)]_vars

\* the budget is used up by a creation in progress while another thread
\* is about to run the test of _create
C12_Witness ==
    \E t, u \in Threads :
        /\ t # u
        /\ avail = 0
        /\ pc[t] = "factory"
        /\ pc[u] \in {"create1", "create2"}

\* the Fairy a Connection in a release or close still refers to, until
\* `self.fairy = None`
Referred(t) == IF InHandleOp(t) THEN tf[t] ELSE None

\* C13: under any interleaving of acquire, release and close a Fairy is the
\* fairy of at most one Connection, a Fairy on the idle queue is the fairy
\* of no Connection a caller holds, and it is on the queue at most once
C13_OneOwner ==
    /\ \A t \in Threads : Referred(t) # None => Referred(t) \notin held
    /\ \A t, u \in Threads :
           (t # u /\ Referred(t) # None) => Referred(t) # Referred(u)
    /\ \A t \in Threads :
           (Acquiring(t) /\ tf[t] # None) => (tf[t] \notin held \cup Idles)
    /\ Idles \cap held = {}
    /\ \A i, j \in 1..Len(queue) : i # j => queue[i] # queue[j]

\* C13 amended: a Connection owns its Fairy from the return of acquire
\* to the call of release or close. Under any interleaving a Fairy is owned
\* by at most one such Connection or by one acquire in progress, a Fairy on
\* the idle queue is owned by none, and it is on the queue at most once
C13_OneHolder ==
    /\ \A t \in Threads :
           (Acquiring(t) /\ tf[t] # None) => (tf[t] \notin held \cup Idles)
    /\ \A t, u \in Threads :
           (t # u /\ Acquiring(t) /\ Acquiring(u) /\ tf[t] # None) => tf[t] # tf[u]
    /\ Idles \cap held = {}
    /\ \A i, j \in 1..Len(queue) : i # j => queue[i] # queue[j]

\* an acquire is about to return the Fairy a release in progress on
\* another thread has just put on the queue
C13_Witness ==
    \E t, u \in Threads :
        /\ t # u
        /\ pc[t] = "ret"
        /\ hist[t].taken # {}
        /\ op[u] = "release"
        /\ tf[u] = tf[t]

\* C14: a Fairy the pool's close has been called on is never afterwards
\* on the idle queue, and no acquire returns it, also when that close raised
C14_ClosedNeverReused ==
    \A f \in FairyIds :
        fairy[f].doomed
            => /\ f \notin Idles
               /\ \A t \in Threads : pc[t] = "ret" => tf[t] # f

\* _create is entered only with a unit taken from a positive budget, and
\* with the budget at zero the create callable is not called
GatedCreate(t) ==
    /\ (pc[t] \in {"create1", "create2"} /\ pc'[t] # pc[t])
           => IF avail <= 0
              THEN /\ pc'[t] \in {"wait", "raise_Timeout"}
                   /\ avail' = avail
                   /\ hist'[t].made = hist[t].made
              ELSE pc'[t] = "factory" /\ avail' = avail - 1
    /\ (pc[t] = "undo" /\ pc'[t] # "undo")
           => (pc'[t] = "raise_create" /\ avail' = avail + 1)

\* C15 as stated: when the create callable fails the unit is given back
\* before the error propagates, so the failed acquire has left the budget
\* as it found it; with the budget at zero the create callable is not called
C15_FailedCreateRestoresBudget ==
    /\ [](\A t \in Threads : pc[t] = "raise_create" => hist[t].davail = 0)
    /\ [][\A t \in Threads : GatedCreate(t)]_vars

\* C15 amended: when the create callable fails the unit is given back
\* before the error propagates, so the failed creation has left the budget
\* as it was: the failed acquire has added to the budget only the units of
\* the Fairies it took off the queue and evicted before; with the budget at
\* zero the create callable is not called
C15_FailedCreateReturnsUnit ==
    /\ [](\A t \in Threads :
             pc[t] = "raise_create"
                 => /\ hist[t].davail = Cardinality(hist[t].taken)
                    /\ hist[t].taken \subseteq Evicted(t)
                    /\ tf[t] = None)
    /\ [][\A t \in Threads : GatedCreate(t)]_vars

\* the create callable failed in an acquire that had evicted a Fairy
C15_Witness ==
    \E t \in Threads :
        /\ pc[t] = "raise_create"
        /\ hist[t].made
        /\ hist[t].taken # {}

\* C16: Fairy.close on a Fairy with a channel goes on to cxn.close()
\* whatever channel.close() did: returned, raised a connection-invalidating
\* error, or raised an error that is not recognized
C16_CloseAlwaysReachesCxn ==
    [][\A t \in Threads :
          (/\ pc[t] = "close_chan"
           /\ pc'[t] # "close_chan"
           /\ tf[t] # None
           /\ fairy[tf[t]].channel)
              => pc'[t] = "close_cxn"]_vars

\* C17: whenever no call is in progress, the budget, the Fairies on the
\* idle queue and the Fairies held by Connections add up to
\* max_size + max_overflow
C17_BudgetConserved ==
    (\A t \in Threads : Idle(t))
        => avail + Len(queue) + Cardinality(held) = Limit

\* C18: for every max_size >= 0 the idle queue never holds more than
\* max_size Fairies
C18_QueueWithinMaxSize == Len(queue) <= max_size

\* C19: when acquire goes to the blocking get, the bound of the wait is the
\* timeout argument whenever one was given, 0 included, and the pool's
\* timeout only when none was given; on a retry the bound is the same again
C19_WaitBoundIsArgument ==
    [][\A t \in Threads :
          (pc[t] = "create1" /\ pc'[t] = "wait")
              => tto'[t] = IF tto[t] = NoTimeout THEN timeout ELSE tto[t]]_vars

\* C20: every acquire completes, by returning a Connection or by raising
\* Timeout or the error of the create callable. Stated on finite runs: an
\* acquire in progress is never stuck (it waits nowhere but in the blocking
\* get, which the timeout ends), and the step that ends it is one of those
\* three
C20_AcquireCompletes ==
    /\ [](\A t \in Threads :
             Acquiring(t) => ENABLED (Statements(t) \/ Retry(t) \/ WaitGet(t)))
    /\ [][\A t \in Threads :
            (Acquiring(t) /\ pc'[t] = "idle")
                => pc[t] \in {"ret", "raise_Timeout", "raise_create"}]_vars

====
